---- MODULE Spec2Model ----
(***************************************************************************)
(* Model of alibaba_rfq_scraper_improved.py: the extraction of one RFQ     *)
(* record from a container (extract_rfq_data_improved), the candidate loop *)
(* of one page (scrape_page_with_selenium) and the pagination loop         *)
(* (scrape_multiple_pages).                                                *)
(*                                                                         *)
(* Text is a sequence of one-character strings, indexed from 1; Python's   *)
(* 0-based positions are shifted by one where the code computes them.      *)
(***************************************************************************)
EXTENDS Integers, Sequences, FiniteSets, TLC

\* ------------------------------------------------------------------ bounds
\* max_pages is drawn from 1..MaxPages
MaxPages == 2
\* a rendered page holds at most MaxContainers candidate containers
MaxContainers == 2

\* -------------------------------------------------------------------- state
VARIABLES
  pc,             \* where the run is: "setup", "fetch" (inside scrape_page_with_selenium,
                  \* before the candidate loop), "loop" (between two candidates), "rfq_id"
                  \* (inside extract_rfq_id_from_url), "delay" (time.sleep between pages),
                  \* "done" (scrape_multiple_pages has returned all_data), "aborted" (an
                  \* exception left scrape_multiple_pages)
  outcome,        \* why the run ended: "running", "completed", "stopped", "interrupted",
                  \* "setup_failed", "aborted"
  target_url,     \* the base_url argument of scrape_multiple_pages
  max_pages,      \* the max_pages argument
  page,           \* the loop variable of scrape_multiple_pages
  attempt,        \* "primary" or "alternate": which fetch of the page is under way
  ncontainers,    \* len(rfq_containers) of the page under way
  i,              \* the position of the next candidate in rfq_containers (from 1)
  container,      \* the candidate last taken from rfq_containers (index in Containers, 0: none)
  raiseAt,        \* the block that raised in the extraction of that candidate (0: none)
  rfq_data,       \* the record last returned by extract_rfq_data_improved
  page_data,      \* scrape_page_with_selenium's page_data
  processed_urls, \* scrape_page_with_selenium's processed_urls
  seen_urls,      \* self.seen_urls
  all_data,       \* scrape_multiple_pages' all_data
  fetches,        \* history: the calls of scrape_page_with_selenium so far, each
                  \* [page, attempt, ok (the page was rendered)]
  yielded         \* history: the page_data each finished page added to all_data

vars == <<pc, outcome, target_url, max_pages, page, attempt, ncontainers, i, container, raiseAt,
          rfq_data, page_data, processed_urls, seen_urls, all_data, fetches, yielded>>

\* -------------------------------------------------------------- characters
Digits == {"0","1","2","3","4","5","6","7","8","9"}
UpperSeq == <<"A","B","C","D","E","F","G","H","I","J","K","L","M","N","O","P","Q","R","S","T","U","V","W","X","Y","Z">>
LowerSeq == <<"a","b","c","d","e","f","g","h","i","j","k","l","m","n","o","p","q","r","s","t","u","v","w","x","y","z">>
Uppers == {UpperSeq[k] : k \in 1..26}
Lowers == {LowerSeq[k] : k \in 1..26}
\* Python's \s and str.strip() whitespace (ASCII part)
Spaces == {" ", "\t", "\n", "\r"}
\* Python's \w (ASCII part)
WordChars == Uppers \cup Lowers \cup Digits \cup {"_"}
\* the characters clean_text keeps: [\w\s\-\.\,\(\)\/\&\%\#\@\!\?\:\;]
KeptChars == WordChars \cup Spaces \cup
             {"-", ".", ",", "(", ")", "/", "&", "%", "#", "@", "!", "?", ":", ";"}

\* str.lower() on one character
LowerChar(c) == IF c \in Uppers THEN LowerSeq[CHOOSE k \in 1..26 : UpperSeq[k] = c] ELSE c
\* str.lower()
Lower(s) == [k \in 1..Len(s) |-> LowerChar(s[k])]

\* the least member of a non-empty set of positions
Least(ps) == CHOOSE p \in ps : \A q \in ps : p <= q
\* s[p-1:].startswith(sub): sub occurs in s at position p
OccursAt(s, sub, p) == /\ p >= 1
                       /\ p + Len(sub) - 1 <= Len(s)
                       /\ \A k \in 1..Len(sub) : s[p + k - 1] = sub[k]
\* sub in s
Contains(s, sub) == \E p \in 1..(Len(s) + 1) : OccursAt(s, sub, p)
\* s.startswith(sub)
StartsWith(s, sub) == OccursAt(s, sub, 1)
\* s.find(sub, from) + 1: the first position >= from where sub occurs, 0 when none
LeastOrZero(hits) == IF hits = {} THEN 0 ELSE Least(hits)
Find(s, sub, from) == LeastOrZero({p \in from..(Len(s) + 1) : OccursAt(s, sub, p)})
\* s.replace(old, new), left to right, non-overlapping
RECURSIVE Replace(_, _, _), ReplaceAt(_, _, _, _)
\* p: the first position of old in s, 0 when there is none
ReplaceAt(s, old, new, p) ==
  IF p = 0 \/ old = <<>> THEN s
  ELSE SubSeq(s, 1, p - 1) \o new \o Replace(SubSeq(s, p + Len(old), Len(s)), old, new)
Replace(s, old, new) == ReplaceAt(s, old, new, Find(s, old, 1))

\* str.strip()
Greatest(ps) == CHOOSE p \in ps : \A q \in ps : q <= p
\* solid: the positions of s that hold no whitespace
StripTo(s, solid) == IF solid = {} THEN <<>> ELSE SubSeq(s, Least(solid), Greatest(solid))
Strip(s) == StripTo(s, {k \in 1..Len(s) : s[k] \notin Spaces})

\* the members of a set of positions, in increasing order
Ascending(ps) ==
  [j \in 1..Cardinality(ps) |-> CHOOSE k \in ps : Cardinality({m \in ps : m <= k}) = j]

\* re.sub(r'\s+', ' ', s): every run of whitespace becomes one blank
\* kept: the positions of s that are no whitespace or start a run of it
CollapseAt(s, kept) == [j \in 1..Len(kept) |-> IF s[kept[j]] \in Spaces THEN " " ELSE s[kept[j]]]
CollapseSpaces(s) ==
  CollapseAt(s, Ascending({k \in 1..Len(s) :
                            s[k] \in Spaces => (k = 1 \/ s[k - 1] \notin Spaces)}))

KeepChar(c) == c \in KeptChars
\* re.sub(r'[^\w\s\-\.\,\(\)\/\&\%\#\@\!\?\:\;]', '', s)
DropSpecial(s) == SelectSeq(s, KeepChar)

clean_text(text) == IF text = <<>> THEN <<>> ELSE DropSpecial(CollapseSpaces(Strip(text)))

\* str(n) for n >= 0
DigitChar(n) == <<"0","1","2","3","4","5","6","7","8","9">>[n + 1]
RECURSIVE IntToStr(_)
IntToStr(n) ==
  IF n < 10 THEN <<DigitChar(n)>> ELSE IntToStr(n \div 10) \o <<DigitChar(n % 10)>>

\* ----------------------------------------------------- regular expressions
\* A pattern is a tree: Lit (a literal), Cls / NotCls (one character in / not
\* in a class), Cat (sequence), Alt (ordered alternatives), Plus, Star, Opt
\* (greedy repetition).
Lit(s) == [t |-> "lit", s |-> s]
Cls(cs) == [t |-> "cls", cs |-> cs]
NotCls(cs) == [t |-> "not", cs |-> cs]
Cat(rs) == [t |-> "cat", rs |-> rs]
Alt(rs) == [t |-> "alt", rs |-> rs]
Plus(r) == [t |-> "plus", r |-> r]
Star(r) == [t |-> "star", r |-> r]
Opt(r) == [t |-> "opt", r |-> r]

\* one character against a class, under re.IGNORECASE when ic
InClass(c, cs, ic) == IF ic THEN \E x \in cs : LowerChar(x) = LowerChar(c) ELSE c \in cs
LitAt(s, lit, p, ic) == IF ic THEN OccursAt(Lower(s), Lower(lit), p) ELSE OccursAt(s, lit, p)

\* does the character at position q match the one-character pattern r
CharMatches(r, s, q, ic) ==
  /\ q <= Len(s)
  /\ IF r.t = "cls" THEN InClass(s[q], r.cs, ic) ELSE ~InClass(s[q], r.cs, ic)
\* how many characters from position p on match the one-character pattern r
RunLength(r, s, p, ic) ==
  Least({q \in p..(Len(s) + 1) : ~CharMatches(r, s, q, ic)}) - p

\* p + n, .., p + 1, p
Descending(p, n) == [j \in 1..(n + 1) |-> p + n + 1 - j]

\* Ends(r, s, p, ic): the positions just after a match of r starting at p, in
\* the order a backtracking matcher tries them (greedy first, alternatives left
\* to right); the head is the match re.match would report.
RECURSIVE Ends(_, _, _, _), EndsEach(_, _, _, _, _)
EndsEach(r, s, es, j, ic) ==
  IF j > Len(es) THEN <<>> ELSE Ends(r, s, es[j], ic) \o EndsEach(r, s, es, j + 1, ic)
Ends(r, s, p, ic) ==
  CASE r.t = "lit"  -> IF LitAt(s, r.s, p, ic) THEN <<p + Len(r.s)>> ELSE <<>>
    [] r.t = "cls"  -> IF CharMatches(r, s, p, ic) THEN <<p + 1>> ELSE <<>>
    [] r.t = "not"  -> IF CharMatches(r, s, p, ic) THEN <<p + 1>> ELSE <<>>
    [] r.t = "cat"  -> IF r.rs = <<>> THEN <<p>>
                       ELSE EndsEach(Cat(Tail(r.rs)), s, Ends(Head(r.rs), s, p, ic), 1, ic)
    [] r.t = "alt"  -> IF r.rs = <<>> THEN <<>>
                       ELSE Ends(Head(r.rs), s, p, ic) \o Ends(Alt(Tail(r.rs)), s, p, ic)
    [] r.t = "opt"  -> Ends(r.r, s, p, ic) \o <<p>>
    [] r.t = "star" -> IF r.r.t \in {"cls", "not"}
                       THEN \* a run of single characters: the longest first
                            Descending(p, RunLength(r.r, s, p, ic))
                       ELSE LET Longer(e) == e > p
                            IN EndsEach(r, s, SelectSeq(Ends(r.r, s, p, ic), Longer), 1, ic)
                               \o <<p>>
    [] r.t = "plus" -> EndsEach(Star(r.r), s, Ends(r.r, s, p, ic), 1, ic)

\* The group of pre(grp)suf matched at p: <<start, end>> of the group for the
\* first way the matcher succeeds, <<>> when the pattern does not match at p.
\* ok: the ends of the group from start on after which suf matches
GroupPick(start, ok, rest) == IF ok # <<>> THEN <<start, Head(ok)>> ELSE rest
RECURSIVE GroupFrom(_, _, _, _, _, _)
GroupFrom(grp, suf, s, starts, j, ic) ==
  IF j > Len(starts) THEN <<>>
  ELSE LET SufOk(e) == Ends(suf, s, e, ic) # <<>>
       IN GroupPick(starts[j], SelectSeq(Ends(grp, s, starts[j], ic), SufOk),
                    GroupFrom(grp, suf, s, starts, j + 1, ic))
GroupAt(pre, grp, suf, s, p, ic) == GroupFrom(grp, suf, s, Ends(pre, s, p, ic), 1, ic)

\* the leftmost of a set of hits <<position, match>>
FirstHit(hits) == CHOOSE x \in hits : \A y \in hits : x[1] <= y[1]

\* re.search(pre(grp)suf, s).group(1), or <<"no match">> (not a text) when
\* there is no match.  A pattern is a triple <<pre, grp, suf>>.
NoMatch == <<"no match">>
GroupText(s, g) == SubSeq(s, g[1], g[2] - 1)
SearchIn(s, hits) == IF hits = {} THEN NoMatch ELSE GroupText(s, FirstHit(hits)[2])
Search(pat, s, ic) ==
  SearchIn(s, {x \in {<<p, GroupAt(pat[1], pat[2], pat[3], s, p, ic)>> : p \in 1..(Len(s) + 1)} :
                 x[2] # <<>>})

\* re.findall(r, s) for a pattern whose only group is the whole pattern and
\* that matches no empty text: the non-overlapping matches, left to right
RECURSIVE FindAllFrom(_, _, _), FindAllIn(_, _, _), FindAllNext(_, _, _)
\* hit: <<p, ends>>, the leftmost match from `from` on
FindAllNext(r, s, hit) ==
  <<SubSeq(s, hit[1], Head(hit[2]) - 1)>> \o FindAllFrom(r, s, Head(hit[2]))
FindAllIn(r, s, hits) == IF hits = {} THEN <<>> ELSE FindAllNext(r, s, FirstHit(hits))
FindAllFrom(r, s, from) ==
  FindAllIn(r, s, {x \in {<<p, Ends(r, s, p, FALSE)>> : p \in from..Len(s)} : x[2] # <<>>})
FindAll(r, s) == FindAllFrom(r, s, 1)
\* ------------------------------------------------------------ field patterns
S1 == Plus(Cls(Spaces))
D1 == Plus(Cls(Digits))
Empty == Cat(<<>>)
\* the rest of a line: [^,\n\r]*
RestOfLine == Star(NotCls({",", "\n", "\r"}))
Capital == Cat(<<Cls(Uppers), Plus(Cls(Lowers))>>)

\* name_patterns, each with re.findall (no flags)
name_patterns == <<
  \* ([A-Z][a-z]+\s+[A-Z][a-z]+(?:\s+[A-Z][a-z]+)?)
  Cat(<<Capital, S1, Capital, Opt(Cat(<<S1, Capital>>))>>),
  \* ([A-Z][a-z]+\s+[A-Z]+[a-z]*)
  Cat(<<Capital, S1, Plus(Cls(Uppers)), Star(Cls(Lowers))>>) >>
exclude_words == << <<"P","o","s","t","e","d">>, <<"Q","u","o","t","e">>, <<"U","n","i","t","e","d">>, <<"A","r","a","b">>, <<"E","m","i","r","a","t","e","s">>, <<"D","a","t","e">>,
                    <<"Q","u","a","n","t","i","t","y">>, <<"R","e","q","u","i","r","e","d">>, <<"E","m","a","i","l">>, <<"C","o","n","f","i","r","m","e","d">>, <<"Q","u","o","t","e","s">>,
                    <<"L","e","f","t">>, <<"B","e","f","o","r","e">>, <<"P","i","e","c","e">> >>

TimeUnit == Alt(<<Lit(<<"h","o","u","r">>), Lit(<<"h","o","u","r","s">>), Lit(<<"m","i","n","u","t","e">>), Lit(<<"m","i","n","u","t","e","s">>),
                  Lit(<<"d","a","y">>), Lit(<<"d","a","y","s">>)>>)
\* time_patterns, each with re.search(..., re.IGNORECASE)
time_patterns == <<
  \* (\d+\s+(?:hour|hours|minute|minutes|day|days)\s+(?:ago|before))
  <<Empty, Cat(<<D1, S1, TimeUnit, S1, Alt(<<Lit(<<"a","g","o">>), Lit(<<"b","e","f","o","r","e">>)>>)>>), Empty>>,
  \* (\d+\s+(?:hour|hours|minute|minutes|day|days))
  <<Empty, Cat(<<D1, S1, TimeUnit>>), Empty>> >>

\* quotes_patterns, each with re.search(..., re.IGNORECASE)
quotes_patterns == <<
  \* Quotes?\s+Left\s+(\d+)
  <<Cat(<<Lit(<<"Q","u","o","t","e">>), Opt(Lit(<<"s">>)), S1, Lit(<<"L","e","f","t">>), S1>>), D1, Empty>>,
  \* (\d+)\s+quote[s]?\s+left
  <<Empty, D1, Cat(<<S1, Lit(<<"q","u","o","t","e">>), Opt(Cls({"s"})), S1, Lit(<<"l","e","f","t">>)>>)>> >>

\* quantity_patterns, each with re.search(..., re.IGNORECASE)
quantity_patterns == <<
  \* Quantity\s+Required:\s*(\d+[^,\n\r]*(?:Piece|Unit|Box|Carton|Meter|Kilogram|Ton|Liter)[^,\n\r]*)
  <<Cat(<<Lit(<<"Q","u","a","n","t","i","t","y">>), S1, Lit(<<"R","e","q","u","i","r","e","d",":">>), Star(Cls(Spaces))>>),
    Cat(<<D1, RestOfLine,
          Alt(<<Lit(<<"P","i","e","c","e">>), Lit(<<"U","n","i","t">>), Lit(<<"B","o","x">>), Lit(<<"C","a","r","t","o","n">>), Lit(<<"M","e","t","e","r">>),
                Lit(<<"K","i","l","o","g","r","a","m">>), Lit(<<"T","o","n">>), Lit(<<"L","i","t","e","r">>)>>),
          RestOfLine>>),
    Empty>>,
  \* (\d+\s*(?:Piece|Pieces|Unit|Units|Box|Boxes|Carton|Cartons|Meter|Meters|Kilogram|Ton|Liter)[^,\n\r]*)
  <<Empty,
    Cat(<<D1, Star(Cls(Spaces)),
          Alt(<<Lit(<<"P","i","e","c","e">>), Lit(<<"P","i","e","c","e","s">>), Lit(<<"U","n","i","t">>), Lit(<<"U","n","i","t","s">>), Lit(<<"B","o","x">>),
                Lit(<<"B","o","x","e","s">>), Lit(<<"C","a","r","t","o","n">>), Lit(<<"C","a","r","t","o","n","s">>), Lit(<<"M","e","t","e","r">>),
                Lit(<<"M","e","t","e","r","s">>), Lit(<<"K","i","l","o","g","r","a","m">>), Lit(<<"T","o","n">>), Lit(<<"L","i","t","e","r">>)>>),
          RestOfLine>>),
    Empty>> >>
\* a quantity of this length or more is rejected
MaxQuantityLen == 100

\* the phrases whose presence in the lower-cased container text sets a flag,
\* in the order the code tests them
flag_phrases == << <<"Email Confirmed", <<"e","m","a","i","l"," ","c","o","n","f","i","r","m","e","d">>>>,
                   <<"Typical Replies", <<"t","y","p","i","c","a","l","l","y"," ","r","e","p","l","i","e","s">>>>,
                   <<"Interactive User", <<"i","n","t","e","r","a","c","t","i","v","e"," ","u","s","e","r">>>>,
                   <<"Experienced Buyer", <<"e","x","p","e","r","i","e","n","c","e","d"," ","b","u","y","e","r">>>> >>

\* a title must be longer than this to be stored by the extractor
TitleStoreLen == 10
\* a record whose title is shorter than this is skipped by the page loop
MinTitleLen == 10
\* titles containing one of these (lower-cased) are skipped by the page loop
skip_words == << <<"b","u","y"," ","a","c","c","e","s","s">>, <<"s","u","b","m","i","t"," ","b","u","y","i","n","g">>, <<"j","o","i","n"," ","f","r","e","e">>, <<"s","i","g","n"," ","i","n">> >>
\* at most this many records are taken from one page
PageLimit == 20
\* alternate pagination advances startIndex by this much per page
PageStep == 20
\* an RFQ id is this many characters of the URL
IdLen == 10

NA == <<"N","/","A">>
base_url == <<"h","t","t","p","s",":","/","/","s","o","u","r","c","i","n","g",".","a","l","i","b","a","b","a",".","c","o","m">>
\* datetime.now().strftime('%d-%m-%Y'): one fixed day for the run
current_date == "01-11-2026"

\* ------------------------------------------------------------- URL helpers
\* urljoin(self.base_url, href) for an href that starts with '/': a reference
\* starting with '//' keeps its own host and takes the base's scheme, any other
\* takes the base's scheme and host (dot segments do not occur in the inputs)
urljoin(base, href) ==
  IF StartsWith(href, <<"/","/">>)
  THEN SubSeq(base, 1, Find(base, <<":">>, 1)) \o href
  ELSE base \o href

\* start, amp: 0-based, as in the code; amp = -1 when there is no '&'
IdSlice(url, start, amp) ==
  IF start + IdLen <= Len(url) THEN SubSeq(url, start + 1, start + IdLen)
  ELSE SubSeq(url, start + 1, IF amp = -1 THEN Len(url) ELSE amp)
IdFrom(url, start) == IdSlice(url, start, Find(url, <<"&">>, start + 1) - 1)
extract_rfq_id_from_url(url) ==
  IF Contains(url, <<"p","=","I","D","1">>) THEN IdFrom(url, Find(url, <<"p","=","I","D","1">>, 1) - 1 + 2) ELSE NA
\* ------------------------------------------------------------------ inputs
\* A container as the extractor sees it: isNone (a null container), text (what
\* get_text() returns), links (the <a> descendants that carry an href, in
\* document order, each with its text and href) and imgs (the src of each <img>
\* descendant, <<>> when the attribute is missing).
Link(text, href) == [text |-> text, href |-> href]
Container(text, links, imgs) ==
  [isNone |-> FALSE, text |-> text, links |-> links, imgs |-> imgs]

Containers == <<
  \* 1: a full listing, root-relative detail link
  Container(<<"N","e","e","d"," ","2","0","0"," ","p","i","e","c","e","s"," ","o","f"," ","p","a","c","k","a","g","i","n","g"," ","f","i","l","m","\n","A","h","m","e","d"," ","K","h","a","n","\n","P","o","s","t","e","d"," ","3"," ","h","o","u","r","s"," ","a","g","o","\n","Q","u","o","t","e","s"," ","L","e","f","t"," ","5","\n","Q","u","a","n","t","i","t","y"," ","R","e","q","u","i","r","e","d",":"," ","2","0","0"," ","P","i","e","c","e","s","\n","E","m","a","i","l"," ","C","o","n","f","i","r","m","e","d">>,
            <<Link(<<"N","e","e","d"," ","2","0","0"," ","p","i","e","c","e","s"," ","o","f"," ","p","a","c","k","a","g","i","n","g"," ","f","i","l","m">>, <<"/","r","f","q","/","r","f","q","_","d","e","t","a","i","l",".","h","t","m","?","p","=","I","D","1","2","3","4","5","6","7","8","9","0">>)>>,
            << <<"/","/","s","c","0","4",".","a","l","i","c","d","n",".","c","o","m","/","k","f","/","a","_","5","0","x","5","0",".","j","p","g">> >>),
  \* 2: the same listing again, protocol-relative detail link after another
  \* link, flags in other letter case
  Container(<<"N","E","E","D"," ","2","0","0"," ","P","I","E","C","E","S"," ","O","F"," ","P","A","C","K","A","G","I","N","G"," ","F","I","L","M","\n","2"," ","d","a","y","s"," ","b","e","f","o","r","e",","," ","7"," ","q","u","o","t","e","s"," ","l","e","f","t","\n","E","X","P","E","R","I","E","N","C","E","D"," ","B","U","Y","E","R","\n","T","y","p","i","c","a","l","l","y"," ","r","e","p","l","i","e","s","\n","I","n","t","e","r","a","c","t","i","v","e"," ","U","s","e","r","\n","C","o","m","p","l","e","t","e"," ","o","r","d","e","r"," ","v","i","a"," ","R","F","Q">>,
            <<Link(<<"#","t","o","p">>, <<"/","h","e","l","p">>),
              Link(<<"N","E","E","D"," ","2","0","0"," ","P","I","E","C","E","S"," ","O","F"," ","P","A","C","K","A","G","I","N","G"," ","F","I","L","M">>, <<"/","/","s","o","u","r","c","i","n","g",".","a","l","i","b","a","b","a",".","c","o","m","/","r","f","q","/","r","f","q","_","d","e","t","a","i","l",".","h","t","m","?","p","=","I","D","1","2","3","4","5","6","7","8","9","0">>)>>,
            << <<>>, <<"h","t","t","p","s",":","/","/","s","c","0","4",".","a","l","i","c","d","n",".","c","o","m","/","k","f","/","A","v","a","t","a","r",".","p","n","g">> >>),
  \* 3: a navigation block whose link text cleans to a denylisted title,
  \* absolute detail link
  Container(<<" "," ","S","i","g","n"," "," "," ","I","n"," ","t","o","\t","s","u","b","m","i","t"," ","R","F","Q","*"," ">>,
            <<Link(<<" "," ","S","i","g","n"," "," "," ","I","n"," ","t","o","\t","s","u","b","m","i","t"," ","R","F","Q","*"," ">>, <<"h","t","t","p","s",":","/","/","s","o","u","r","c","i","n","g",".","a","l","i","b","a","b","a",".","c","o","m","/","r","f","q","/","r","f","q","_","d","e","t","a","i","l",".","h","t","m","?","p","=","I","D","1","5">>)>>,
            <<>>),
  \* 4: a title of exactly ten characters
  Container(<<"R","i","c","e"," ","1","0"," ","k","g"," ","4","0"," ","m","i","n","u","t","e","s"," ","E","m","a","i","l"," ","c","o","n","f","i","r","m","e","d">>,
            <<Link(<<"R","i","c","e"," ","1","0"," ","k","g">>, <<"/","r","f","q","/","r","f","q","_","d","e","t","a","i","l",".","h","t","m","?","p","=","I","D","1","0","0","0","0","0","0","0","0","4">>)>>,
            <<>>),
  \* 5: a path-relative detail link
  Container(<<"S","t","a","i","n","l","e","s","s"," ","s","t","e","e","l"," ","b","o","t","t","l","e","s","\n","Q","u","a","n","t","i","t","y"," ","R","e","q","u","i","r","e","d",":"," ","5","0","0"," ","U","n","i","t","s",","," ","O","m","a","r"," ","S","\n","p","o","s","t","e","d"," ","1"," ","h","o","u","r"," ","a","g","o">>,
            <<Link(<<"S","t","a","i","n","l","e","s","s"," ","s","t","e","e","l"," ","b","o","t","t","l","e","s">>, <<"r","f","q","_","d","e","t","a","i","l",".","h","t","m","?","p","=","I","D","1","9","8","7","&","x","=","1">>)>>,
            <<>>),
  \* 6: a null container
  [isNone |-> TRUE, text |-> <<>>, links |-> <<>>, imgs |-> <<>>] >>

\* ------------------------------------------------- extract_rfq_data_improved
FieldNames == {"RFQ ID", "Title", "Buyer Name", "Buyer Image", "Inquiry Time", "Quotes Left",
               "Country", "Quantity Required", "Email Confirmed", "Experienced Buyer",
               "Complete Order via RFQ", "Typical Replies", "Interactive User",
               "Inquiry URL", "Inquiry Date", "Scraping Date"}
FlagFields == {"Email Confirmed", "Experienced Buyer", "Complete Order via RFQ",
               "Typical Replies", "Interactive User"}

\* the record as initialised before the try block
DefaultRecord ==
  ("RFQ ID" :> NA) @@ ("Title" :> NA) @@ ("Buyer Name" :> NA) @@ ("Buyer Image" :> NA) @@
  ("Inquiry Time" :> NA) @@ ("Quotes Left" :> NA) @@ ("Country" :> "United Arab Emirates") @@
  ("Quantity Required" :> NA) @@ ("Email Confirmed" :> "No") @@ ("Experienced Buyer" :> "No") @@
  ("Complete Order via RFQ" :> "No") @@ ("Typical Replies" :> "No") @@
  ("Interactive User" :> "No") @@ ("Inquiry URL" :> NA) @@
  ("Inquiry Date" :> current_date) @@ ("Scraping Date" :> current_date)

\* container.get_text() if container else ""
container_text(c) == IF c.isNone THEN <<>> ELSE c.text

\* container.find('a', href=re.compile(r'rfq_detail\.htm')): the index of the
\* first link whose href contains rfq_detail.htm, 0 when there is none
title_link(c) ==
  LeastOrZero({k \in 1..Len(c.links) : Contains(c.links[k].href, <<"r","f","q","_","d","e","t","a","i","l",".","h","t","m">>)})

\* Does the extraction of c call extract_rfq_id_from_url?  (title_link found
\* and its href not empty)
CallsIdExtraction(c) ==
  /\ ~c.isNone
  /\ title_link(c) # 0
  /\ c.links[title_link(c)].href # <<>>

\* "Extract title and URL".  idInterrupted: an interrupt arrives inside
\* extract_rfq_id_from_url, whose bare except turns it into the result "N/A".
StoreTitle(d, title) == IF Len(title) > TitleStoreLen THEN [d EXCEPT !["Title"] = title] ELSE d
StoreUrl(d, href, idInterrupted) ==
  [d EXCEPT !["Inquiry URL"] = href,
            !["RFQ ID"] = IF idInterrupted THEN NA ELSE extract_rfq_id_from_url(href)]
ResolveHref(raw) == IF StartsWith(raw, <<"/">>) THEN urljoin(base_url, raw) ELSE raw
StoreHref(d, raw, idInterrupted) ==
  IF raw = <<>> THEN d ELSE StoreUrl(d, ResolveHref(raw), idInterrupted)
StoreLink(d, link, idInterrupted) ==
  StoreHref(StoreTitle(d, clean_text(link.text)), link.href, idInterrupted)
\* k: title_link
ExtractTitleUrlAt(c, d, k, idInterrupted) ==
  IF k = 0 THEN d ELSE StoreLink(d, c.links[k], idInterrupted)
ExtractTitleUrl(c, d, idInterrupted) == ExtractTitleUrlAt(c, d, title_link(c), idInterrupted)

\* a findall match is taken as the buyer name
NameOk(m) == /\ \A w \in 1..Len(exclude_words) : ~Contains(m, exclude_words[w])
             /\ Len(m) > 5
\* good: the matches of one pattern that are taken as names
NameOr(good, other) == IF good # <<>> THEN Strip(Head(good)) ELSE other
RECURSIVE FirstName(_, _)
FirstName(text, p) ==
  IF p > Len(name_patterns) THEN NA
  ELSE NameOr(SelectSeq(FindAll(name_patterns[p], text), NameOk), FirstName(text, p + 1))
ExtractBuyerName(c, d) == [d EXCEPT !["Buyer Name"] = FirstName(container_text(c), 1)]

ImageOk(src) == /\ Contains(src, <<"5","0","x","5","0">>) \/ Contains(Lower(src), <<"a","v","a","t","a","r">>)
                /\ Contains(src, <<"a","l","i","c","d","n",".","c","o","m">>)
StoreImage(d, src) ==
  [d EXCEPT !["Buyer Image"] = IF StartsWith(src, <<"/","/">>) THEN <<"h","t","t","p","s",":">> \o src ELSE src]
\* good: the src of the images that pass the test
StoreFirstImage(d, good) == IF good = <<>> THEN d ELSE StoreImage(d, Head(good))
ExtractBuyerImage(c, d) == StoreFirstImage(d, SelectSeq(c.imgs, ImageOk))

\* the group of the first pattern of pats that matches, NoMatch when none does
MatchOr(m, other) == IF m # NoMatch THEN m ELSE other
RECURSIVE FirstSearch(_, _, _)
FirstSearch(pats, text, p) ==
  IF p > Len(pats) THEN NoMatch
  ELSE MatchOr(Search(pats[p], text, TRUE), FirstSearch(pats, text, p + 1))
\* field f takes the matched group m, if any
StoreMatch(d, f, m) == IF m = NoMatch THEN d ELSE [d EXCEPT ![f] = m]

ExtractInquiryTime(c, d) ==
  StoreMatch(d, "Inquiry Time", FirstSearch(time_patterns, container_text(c), 1))

ExtractQuotesLeft(c, d) ==
  StoreMatch(d, "Quotes Left", FirstSearch(quotes_patterns, container_text(c), 1))

\* the first pattern that matches with a cleaned group shorter than
\* MaxQuantityLen decides; a longer group lets the next pattern try
CleanMatch(m) == IF m = NoMatch THEN NoMatch ELSE clean_text(m)
\* quantity: the cleaned group of a pattern, NoMatch when it did not match
QuantityOr(quantity, other) ==
  IF quantity # NoMatch /\ Len(quantity) < MaxQuantityLen THEN quantity ELSE other
RECURSIVE FirstQuantity(_, _)
FirstQuantity(text, p) ==
  IF p > Len(quantity_patterns) THEN NA
  ELSE QuantityOr(CleanMatch(Search(quantity_patterns[p], text, TRUE)),
                  FirstQuantity(text, p + 1))
ExtractQuantity(c, d) == [d EXCEPT !["Quantity Required"] = FirstQuantity(container_text(c), 1)]

\* "Check for flags": the tests from the k-th on, each setting its field to
\* 'Yes' when its phrase occurs in text_lower
RECURSIVE SetFlags(_, _, _)
SetFlags(d, text_lower, k) ==
  IF k > Len(flag_phrases) THEN d
  ELSE SetFlags(IF Contains(text_lower, flag_phrases[k][2])
                THEN [d EXCEPT ![flag_phrases[k][1]] = "Yes"] ELSE d,
                text_lower, k + 1)
ExtractFlags(c, d) == SetFlags(d, Lower(container_text(c)), 1)

\* the blocks of the try body, in order
NBlocks == 7
Block(k, c, d, idInterrupted) ==
  CASE k = 1 -> ExtractTitleUrl(c, d, idInterrupted)
    [] k = 2 -> ExtractBuyerName(c, d)
    [] k = 3 -> ExtractBuyerImage(c, d)
    [] k = 4 -> ExtractInquiryTime(c, d)
    [] k = 5 -> ExtractQuotesLeft(c, d)
    [] k = 6 -> ExtractQuantity(c, d)
    [] k = 7 -> ExtractFlags(c, d)

\* The try body from block k on.  raising = 0: no block raises; raising = k:
\* block k raises before it stores anything, the except clause swallows the
\* error and the record is returned as it stands.
RECURSIVE RunBlocks(_, _, _, _, _)
RunBlocks(c, d, k, raising, idInterrupted) ==
  IF k > NBlocks \/ k = raising THEN d
  ELSE RunBlocks(c, Block(k, c, d, idInterrupted), k + 1, raising, idInterrupted)

\* extract_rfq_data_improved without its except clause: an error leaves the
\* call and no record is returned
extract_rfq_data_improved_Unguarded(c, raising, idInterrupted) ==
  IF c.isNone \/ raising # 0 THEN <<>>
  ELSE RunBlocks(c, DefaultRecord, 1, 0, idInterrupted)

\* A null container raises at container.find, the first call of block 1.
extract_rfq_data_improved(c, raising, idInterrupted) ==
  RunBlocks(c, DefaultRecord, 1, IF c.isNone THEN 1 ELSE raising, idInterrupted)

\* The calls the candidate loop can make, worked out once: Extracted[c][r + 1]
\* holds what extract_rfq_data_improved returns for container c when block r
\* raises (0: none), first with the id extraction left alone, then with it
\* interrupted; ReachesId[c] tells whether the extraction of container c calls
\* extract_rfq_id_from_url.
RECURSIVE ExtractedFrom(_, _)
ExtractedFrom(c, r) ==
  IF r > NBlocks THEN <<>>
  ELSE << <<extract_rfq_data_improved(Containers[c], r, FALSE),
            extract_rfq_data_improved(Containers[c], r, TRUE)>> >> \o ExtractedFrom(c, r + 1)
RECURSIVE ExtractedAll(_)
ExtractedAll(c) ==
  IF c > Len(Containers) THEN <<>> ELSE <<ExtractedFrom(c, 0)>> \o ExtractedAll(c + 1)
Extracted == ExtractedAll(1)
RECURSIVE ReachesIdFrom(_)
ReachesIdFrom(c) ==
  IF c > Len(Containers) THEN <<>>
  ELSE <<CallsIdExtraction(Containers[c])>> \o ReachesIdFrom(c + 1)
ReachesId == ReachesIdFrom(1)
\* the record extract_rfq_data_improved returns for container c when block r raises
ExtractCall(c, r, idInterrupted) == Extracted[c][r + 1][IF idInterrupted THEN 2 ELSE 1]
\* the block that raises in the extraction of container c (0: none)
RaisesAt(c, r) == IF Containers[c].isNone THEN 1 ELSE r

\* ------------------------------------------------------------ pagination URLs
\* the listing URLs a run may be started with (main() uses the first)
TargetUrls == {
  <<"h","t","t","p","s",":","/","/","s","o","u","r","c","i","n","g",".","a","l","i","b","a","b","a",".","c","o","m","/","r","f","q","/","r","f","q","_","s","e","a","r","c","h","_","l","i","s","t",".","h","t","m","?","c","o","u","n","t","r","y","=","A","E","&","r","e","c","e","n","t","l","y","=","Y","&","t","r","a","c","e","l","o","g","=","n","e","w","e","s","t">>,
  <<"h","t","t","p","s",":","/","/","s","o","u","r","c","i","n","g",".","a","l","i","b","a","b","a",".","c","o","m","/","r","f","q","/","r","f","q","_","s","e","a","r","c","h","_","l","i","s","t",".","h","t","m","?","c","o","u","n","t","r","y","=","A","E">>,
  <<"h","t","t","p","s",":","/","/","s","o","u","r","c","i","n","g",".","a","l","i","b","a","b","a",".","c","o","m","/","r","f","q","/","r","f","q","_","s","e","a","r","c","h","_","l","i","s","t",".","h","t","m">> }
RecencyMarker == <<"&","r","e","c","e","n","t","l","y","=","Y">>

\* the URL of the primary fetch of a page
PrimaryUrl(base, p) ==
  IF p = 1 THEN base
  ELSE IF Contains(base, <<"?">>) THEN base \o <<"&","p","a","g","e","=">> \o IntToStr(p)
  ELSE base \o <<"?","p","a","g","e","=">> \o IntToStr(p)
\* alt_url
AltUrl(base, p) ==
  Replace(base, RecencyMarker, RecencyMarker \o <<"&","s","t","a","r","t","I","n","d","e","x","=">> \o IntToStr((p - 1) * PageStep))

\* no record has been extracted yet
NoRecord == <<>>

Init ==
  /\ pc = "setup"
  /\ outcome = "running"
  /\ target_url \in TargetUrls
  /\ max_pages \in 0..MaxPages
  /\ page = 0
  /\ attempt = "primary"
  /\ ncontainers = 0
  /\ i = 1
  /\ container = 0
  /\ raiseAt = 0
  /\ rfq_data = NoRecord
  /\ page_data = <<>>
  /\ processed_urls = {}
  /\ seen_urls = {}
  /\ all_data = <<>>
  /\ fetches = <<>>
  /\ yielded = <<>>

\* the locals of one scrape_page_with_selenium call, gone when it returns
PageLocalsReset ==
  /\ ncontainers' = 0
  /\ i' = 1
  /\ container' = 0
  /\ raiseAt' = 0
  /\ rfq_data' = NoRecord
  /\ page_data' = <<>>
  /\ processed_urls' = {}

\* `for page in range(1, max_pages + 1)`: take the page after p, or leave the loop
NextPage(p) ==
  IF p + 1 <= max_pages
  THEN /\ page' = p + 1
       /\ attempt' = "primary"
       /\ pc' = "fetch"
       /\ outcome' = outcome
  ELSE /\ page' = p
       /\ attempt' = attempt
       /\ pc' = "done"
       /\ outcome' = "completed"

\* setup_selenium() succeeds and the page loop starts
SetupOk ==
  /\ pc = "setup"
  /\ NextPage(0)
  /\ UNCHANGED <<target_url, max_pages, ncontainers, i, container, raiseAt, rfq_data, page_data,
                 processed_urls, seen_urls, all_data, fetches, yielded>>

\* setup_selenium() returns False: scrape_multiple_pages returns []
SetupFails ==
  /\ pc = "setup"
  /\ pc' = "done"
  /\ outcome' = "setup_failed"
  /\ UNCHANGED <<target_url, max_pages, page, attempt, ncontainers, i, container, raiseAt,
                 rfq_data, page_data, processed_urls, seen_urls, all_data, fetches, yielded>>

\* AfterPage without the `break` of line 336: a page without records is passed
\* over and the loop goes on
AfterPage_NoBreak(pd) ==
  IF pd # <<>>
  THEN /\ all_data' = all_data \o pd
       /\ yielded' = Append(yielded, pd)
       /\ pc' = "delay"
       /\ UNCHANGED <<page, attempt, outcome>>
  ELSE IF attempt = "primary" /\ AltUrl(target_url, page) # PrimaryUrl(target_url, page)
  THEN /\ pc' = "fetch"
       /\ attempt' = "alternate"
       /\ UNCHANGED <<all_data, yielded, page, outcome>>
  ELSE /\ pc' = "delay"
       /\ UNCHANGED <<all_data, yielded, page, attempt, outcome>>

\* What scrape_multiple_pages does with the page_data that
\* scrape_page_with_selenium returned for `page` (lines 327-342, up to the sleep).
AfterPage(pd) ==
  IF pd # <<>>
  THEN /\ all_data' = all_data \o pd
       /\ yielded' = Append(yielded, pd)
       /\ pc' = "delay"
       /\ UNCHANGED <<page, attempt, outcome>>
  ELSE IF attempt = "primary" /\ AltUrl(target_url, page) # PrimaryUrl(target_url, page)
  THEN /\ pc' = "fetch"
       /\ attempt' = "alternate"
       /\ UNCHANGED <<all_data, yielded, page, outcome>>
  ELSE /\ pc' = "done"
       /\ outcome' = "stopped"
       /\ UNCHANGED <<all_data, yielded, page, attempt>>

\* driver.get .. get_rfq_containers succeed: the candidate loop starts on n containers
RenderOk(n) ==
  /\ pc = "fetch"
  /\ pc' = "loop"
  /\ ncontainers' = n
  /\ i' = 1
  /\ page_data' = <<>>
  /\ processed_urls' = {}
  /\ fetches' = Append(fetches, [page |-> page, attempt |-> attempt, ok |-> TRUE])
  /\ UNCHANGED <<outcome, target_url, max_pages, page, attempt, container, raiseAt, rfq_data,
                 seen_urls, all_data, yielded>>

\* RenderFails without the outer `except Exception` of scrape_page_with_selenium:
\* the error leaves scrape_multiple_pages through its own `except Exception`
RenderFails_Escapes ==
  /\ pc = "fetch"
  /\ fetches' = Append(fetches, [page |-> page, attempt |-> attempt, ok |-> FALSE])
  /\ pc' = "done"
  /\ outcome' = "aborted"
  /\ PageLocalsReset
  /\ UNCHANGED <<target_url, max_pages, page, attempt, seen_urls, all_data, yielded>>

\* the renderer raises (failure, timeout): the outer except returns []
RenderFails ==
  /\ pc = "fetch"
  /\ fetches' = Append(fetches, [page |-> page, attempt |-> attempt, ok |-> FALSE])
  /\ AfterPage(<<>>)
  /\ PageLocalsReset
  /\ UNCHANGED <<target_url, max_pages, seen_urls>>

\* SkipNoData without the test against self.seen_urls
SkipNoData_PageOnly(d, processed, seen) ==
  \/ d["Title"] = NA
  \/ Len(d["Title"]) < MinTitleLen
  \/ d["Inquiry URL"] \in processed

\* "Skip if no meaningful data or duplicate"
SkipNoData(d, processed, seen) ==
  \/ d["Title"] = NA
  \/ Len(d["Title"]) < MinTitleLen
  \/ d["Inquiry URL"] \in processed
  \/ d["Inquiry URL"] \in seen

\* SkipPromotional without .lower()
SkipPromotional_CaseSensitive(d) ==
  \E w \in 1..Len(skip_words) : Contains(d["Title"], skip_words[w])

\* "Skip promotional/navigation elements"
SkipPromotional(d) ==
  \E w \in 1..Len(skip_words) : Contains(Lower(d["Title"]), skip_words[w])

\* The body of the candidate loop for candidate c from the return of
\* extract_rfq_data_improved on: filter, accept, per-page limit.
FinishCandidate(c, r, idInterrupted) ==
  \E d \in {ExtractCall(c, r, idInterrupted)} :
    \E skip \in {SkipNoData(d, processed_urls, seen_urls) \/ SkipPromotional(d)} :
      /\ rfq_data' = d
      /\ container' = c
      /\ raiseAt' = RaisesAt(c, r)
      /\ page_data' = IF skip THEN page_data ELSE Append(page_data, d)
      /\ processed_urls' = IF skip THEN processed_urls
                           ELSE processed_urls \cup {d["Inquiry URL"]}
      /\ seen_urls' = IF skip THEN seen_urls ELSE seen_urls \cup {d["Inquiry URL"]}
      /\ i' = IF ~skip /\ Len(page_data) + 1 >= PageLimit THEN ncontainers + 1 ELSE i + 1
      /\ pc' = "loop"

\* The loop takes candidate i, which is container c of the rendered page.  When
\* the extraction reaches extract_rfq_id_from_url (block 1 does not raise) the
\* run is inside that call next.
NextCandidate(c) ==
  /\ pc = "loop"
  /\ i <= ncontainers
  /\ IF ReachesId[c] /\ RaisesAt(c, 0) # 1
     THEN /\ pc' = "rfq_id"
          /\ container' = c
          /\ raiseAt' = RaisesAt(c, 0)
          /\ UNCHANGED <<rfq_data, page_data, processed_urls, seen_urls, i>>
     ELSE FinishCandidate(c, 0, FALSE)
  /\ UNCHANGED <<outcome, target_url, max_pages, page, attempt, ncontainers, all_data, fetches,
                 yielded>>

\* An error is raised in the loop body of candidate i outside the try block of
\* extract_rfq_data_improved: the inner `except Exception` logs it and
\* continues with the next candidate.
CandidateFails(c) ==
  /\ pc = "loop"
  /\ i <= ncontainers
  /\ container' = c
  /\ raiseAt' = 0
  /\ rfq_data' = NoRecord
  /\ i' = i + 1
  /\ UNCHANGED <<pc, outcome, target_url, max_pages, page, attempt, ncontainers, page_data,
                 processed_urls, seen_urls, all_data, fetches, yielded>>

\* extract_rfq_id_from_url returns normally
IdReturns ==
  /\ pc = "rfq_id"
  /\ FinishCandidate(container, 0, FALSE)
  /\ UNCHANGED <<outcome, target_url, max_pages, page, attempt, ncontainers, all_data, fetches,
                 yielded>>

\* An interrupt arrives inside extract_rfq_id_from_url: its bare `except:`
\* catches KeyboardInterrupt and returns "N/A"; the run goes on.
InterruptInId ==
  /\ pc = "rfq_id"
  /\ FinishCandidate(container, 0, TRUE)
  /\ UNCHANGED <<outcome, target_url, max_pages, page, attempt, ncontainers, all_data, fetches,
                 yielded>>

\* the candidate loop is over: scrape_page_with_selenium returns page_data
PageDone ==
  /\ pc = "loop"
  /\ i > ncontainers
  /\ AfterPage(page_data)
  /\ PageLocalsReset
  /\ UNCHANGED <<target_url, max_pages, seen_urls, fetches>>

\* time.sleep between pages is over
Delay ==
  /\ pc = "delay"
  /\ NextPage(page)
  /\ UNCHANGED <<target_url, max_pages, ncontainers, i, container, raiseAt, rfq_data, page_data,
                 processed_urls, seen_urls, all_data, fetches, yielded>>

\* An interrupt arrives while the run is in the try block of
\* scrape_multiple_pages and outside extract_rfq_id_from_url: no `except
\* Exception` catches KeyboardInterrupt, `except KeyboardInterrupt` of
\* scrape_multiple_pages does, and all_data is returned.
Interrupt ==
  /\ pc \in {"fetch", "loop", "delay"}
  /\ pc' = "done"
  /\ outcome' = "interrupted"
  /\ PageLocalsReset
  /\ UNCHANGED <<target_url, max_pages, page, attempt, seen_urls, all_data, fetches, yielded>>

\* An interrupt arrives during setup_selenium, before the try block: it leaves
\* scrape_multiple_pages as an exception.
InterruptInSetup ==
  /\ pc = "setup"
  /\ pc' = "aborted"
  /\ outcome' = "aborted"
  /\ UNCHANGED <<target_url, max_pages, page, attempt, ncontainers, i, container, raiseAt,
                 rfq_data, page_data, processed_urls, seen_urls, all_data, fetches, yielded>>

Next ==
  \/ SetupOk
  \/ SetupFails
  \/ \E n \in 0..MaxContainers : RenderOk(n)
  \/ RenderFails
  \/ \E c \in 1..Len(Containers) : NextCandidate(c)
  \/ \E c \in 1..Len(Containers) : CandidateFails(c)
  \/ IdReturns
  \/ InterruptInId
  \/ PageDone
  \/ Delay
  \/ Interrupt
  \/ InterruptInSetup

Spec == Init /\ [][Next]_vars

\* --------------------------------------------- the extractor on its own
\* extract_rfq_data_improved is called on container c, block r raises (0: none)
\* and, when the call reaches extract_rfq_id_from_url, b tells whether an
\* interrupt arrives there.
Extraction(c, r, b) ==
  /\ b => ReachesId[c] /\ RaisesAt(c, r) # 1
  /\ container' = c
  /\ raiseAt' = RaisesAt(c, r)
  /\ rfq_data' = ExtractCall(c, r, b)
  /\ UNCHANGED <<pc, outcome, target_url, max_pages, page, attempt, ncontainers, i, page_data,
                 processed_urls, seen_urls, all_data, fetches, yielded>>

NextExtract == \E c \in 1..Len(Containers), r \in 0..NBlocks, b \in BOOLEAN : Extraction(c, r, b)

ExtractSpec == Init /\ [][NextExtract]_vars


\* ================================================================ properties
\* the records accepted so far in the run: those of the finished pages and
\* those of the page being scraped
Accepted == all_data \o page_data
\* the Inquiry URLs of the records of s
UrlsOf(s) == {s[k]["Inquiry URL"] : k \in 1..Len(s)}
\* the last candidate was extracted and not accepted
LastRejected ==
  /\ pc = "loop"
  /\ container # 0
  /\ rfq_data # NoRecord
  /\ \A k \in 1..Len(page_data) : page_data[k] # rfq_data
\* the concatenation of the sequences of ss
RECURSIVE Flatten(_)
Flatten(ss) == IF ss = <<>> THEN <<>> ELSE Head(ss) \o Flatten(Tail(ss))

\* ------------------------------------------------------------------------ C1
\* C1: in every reachable state of a run, pages finished or in progress,
\* alternate retries included, no two accepted records carry the same
\* 'Inquiry URL'; so a candidate whose URL was accepted earlier on the page or
\* on a prior page is never accepted again.
C1_UniqueInquiryUrl ==
  \A a, b \in 1..Len(Accepted) :
    a # b => Accepted[a]["Inquiry URL"] # Accepted[b]["Inquiry URL"]

\* on a later page the first candidate, with an acceptable title, has just been
\* rejected because its URL is that of a record of a prior page
C1_Witness ==
  /\ LastRejected
  /\ page >= 2
  /\ i = 2
  /\ ~SkipNoData(rfq_data, {}, {})
  /\ ~SkipPromotional(rfq_data)
  /\ rfq_data["Inquiry URL"] \in UrlsOf(all_data)
  /\ \E k \in 1..Len(all_data) :
       /\ all_data[k]["Inquiry URL"] = rfq_data["Inquiry URL"]
       /\ all_data[k]["Title"] # rfq_data["Title"]

\* ------------------------------------------------------------------------ C2
\* the call of scrape_page_with_selenium returns no record
ZeroYield == RenderFails \/ (PageDone /\ page_data = <<>>)

C2_State ==
  \* pages are fetched in increasing order, none is passed over
  /\ \A k \in 1..(Len(fetches) - 1) :
       /\ fetches[k].page <= fetches[k + 1].page
       /\ fetches[k + 1].page <= fetches[k].page + 1
  /\ \A k \in 1..Len(fetches) : fetches[k].page \in 1..max_pages
  \* after the stop at page k: nothing beyond k was fetched, the result is what
  \* pages 1..k-1 yielded, and the run is over
  /\ outcome = "stopped" =>
       /\ page \in 1..max_pages
       /\ \A k \in 1..Len(fetches) : fetches[k].page <= page
       /\ Len(yielded) = page - 1
       /\ all_data = Flatten(yielded)
       /\ ~ENABLED Next
  \* every page yielded: all of 1..max_pages were fetched
  /\ outcome = "completed" =>
       /\ {fetches[k].page : k \in 1..Len(fetches)} = 1..max_pages
       /\ Len(yielded) = max_pages
       /\ \A k \in 1..Len(yielded) : yielded[k] # <<>>
       /\ all_data = Flatten(yielded)
  \* while page k is being worked on, pages 1..k-1 have yielded
  /\ pc \in {"fetch", "loop", "rfq_id"} => Len(yielded) = page - 1

\* C2: pages are fetched in increasing order; when the fetch of page k and its
\* alternate retry (or the fetch alone, when there is no retry) both return no
\* record, the run stops there whatever max_pages is: no page beyond k is
\* fetched and the result is what pages 1..k-1 yielded; a run in which every
\* page yields a record fetches all of 1..max_pages.
C2_PaginationStop ==
  /\ []C2_State
  /\ [][ZeroYield /\ (attempt = "alternate"
                      \/ AltUrl(target_url, page) = PrimaryUrl(target_url, page))
          => /\ outcome' = "stopped"
             /\ pc' = "done"
             /\ page' = page
             /\ all_data' = all_data]_vars

\* the run has stopped at page 1 of 2 after a primary fetch and an alternate
\* retry that both returned no record
C2_Witness ==
  /\ outcome = "stopped"
  /\ page < max_pages
  /\ Len(fetches) = 2
  /\ fetches[1].attempt = "primary"
  /\ fetches[2].attempt = "alternate"
  /\ fetches[2].ok

\* ------------------------------------------------------------------------ C3
\* C3: no accepted record has the title 'N/A', a title shorter than
\* MinTitleLen, or a title whose lowercase form contains one of skip_words.
C3_TitleFilter ==
  \A k \in 1..Len(Accepted) :
    LET title == Accepted[k]["Title"]
    IN /\ title # NA
       /\ Len(title) >= MinTitleLen
       /\ \A w \in 1..Len(skip_words) : ~Contains(Lower(title), skip_words[w])

\* a candidate whose title holds a denylisted phrase in capitals only has just
\* been rejected, its URL being new
C3_Witness ==
  /\ LastRejected
  /\ rfq_data["Title"] # NA
  /\ Len(rfq_data["Title"]) >= MinTitleLen
  /\ rfq_data["Inquiry URL"] \notin seen_urls
  /\ \E w \in 1..Len(skip_words) : Contains(Lower(rfq_data["Title"]), skip_words[w])
  /\ \A w \in 1..Len(skip_words) : ~Contains(rfq_data["Title"], skip_words[w])

\* ------------------------------------------------------------------------ C4
\* the value of field f is a string: one of the two flag values, or text
FieldValueOk(d, f) ==
  IF f \in FlagFields THEN d[f] \in {"Yes", "No"}
  ELSE IF f = "Country" THEN d[f] = "United Arab Emirates"
  ELSE IF f \in {"Inquiry Date", "Scraping Date"} THEN d[f] = current_date
  ELSE /\ d[f] \in Seq(STRING)
       /\ d[f] # <<>>

\* C4: whatever the container (a null one included) and whichever block
\* raises, extract_rfq_data_improved returns a record, and the record has all
\* 16 fields, each holding a parsed value or its default.
C4_ExtractionTotal ==
  container # 0 =>
    /\ DOMAIN rfq_data = FieldNames
    /\ Cardinality(FieldNames) = 16
    /\ \A f \in FieldNames : FieldValueOk(rfq_data, f)
    /\ \A f \in FieldNames \ {"RFQ ID", "Title", "Inquiry URL"} :
         raiseAt \in 1..2 => rfq_data[f] = DefaultRecord[f]

\* the extraction of a container with a title has returned although its third
\* block raised
C4_Witness ==
  /\ container # 0
  /\ raiseAt = 3
  /\ rfq_data # NoRecord
  /\ rfq_data["Title"] # NA
  /\ rfq_data["Buyer Name"] # NA
  /\ rfq_data["Inquiry Time"] = NA

\* ------------------------------------------------------------------------ C5
\* the fields block k of the try body stores
BlockFields(k) ==
  CASE k = 1 -> {"Title", "Inquiry URL", "RFQ ID"}
    [] k = 2 -> {"Buyer Name"}
    [] k = 3 -> {"Buyer Image"}
    [] k = 4 -> {"Inquiry Time"}
    [] k = 5 -> {"Quotes Left"}
    [] k = 6 -> {"Quantity Required"}
    [] k = 7 -> FlagFields

\* C5: when a block of the extraction raises, every field of a later block
\* still has the value it has when no block raises.
C5_FieldIsolation ==
  (container # 0 /\ raiseAt # 0) =>
    \A k \in (raiseAt + 1)..NBlocks : \A f \in BlockFields(k) :
      rfq_data[f] = ExtractCall(container, 0, FALSE)[f]

\* ------------------------------------------------------------------------ C6
\* C6: an interrupt, wherever in the run it arrives (page fetch, candidate
\* loop, id extraction, alternate retry, delay), ends the run at once: no
\* further fetch, and the records accumulated so far are the result.
C6_InterruptStops ==
  [][(Interrupt \/ InterruptInId)
      => /\ pc' = "done"
         /\ outcome' = "interrupted"
         /\ fetches' = fetches
         /\ all_data' = all_data]_vars

\* ------------------------------------------------------------------------ C7
\* the phrase of each flag field: those the code looks for, and the field name
\* for the flag it has no test for
FlagPhraseOf(f) ==
  IF \E k \in 1..Len(flag_phrases) : flag_phrases[k][1] = f
  THEN flag_phrases[CHOOSE k \in 1..Len(flag_phrases) : flag_phrases[k][1] = f][2]
  ELSE <<"c","o","m","p","l","e","t","e"," ","o","r","d","e","r"," ","v","i","a"," ","r","f","q">>

\* C7: after an extraction in which no block raised, each of the five flag
\* fields is 'Yes' exactly when its phrase occurs, in any letter case, in the
\* text of the container.
C7_FlagsIffPhrase ==
  (container # 0 /\ raiseAt = 0 /\ rfq_data # NoRecord) =>
    \A f \in FlagFields :
      rfq_data[f] = "Yes"
        <=> Contains(Lower(container_text(Containers[container])), FlagPhraseOf(f))

\* ------------------------------------------------------------------------ C8
\* an absolute URL: a scheme, "://", and a host
IsAbsoluteUrl(u) == StartsWith(u, <<"h","t","t","p","s",":","/","/">>) \/ StartsWith(u, <<"h","t","t","p",":","/","/">>)

\* C8: the 'Inquiry URL' of every accepted record is an absolute URL.
C8_AbsoluteInquiryUrl ==
  \A k \in 1..Len(Accepted) : IsAbsoluteUrl(Accepted[k]["Inquiry URL"])

\* ------------------------------------------------------------------------ C9
\* C9: when target_url does not hold the recency marker no page is fetched a
\* second time: every fetch of the run is a primary one.
C9_NoRetryWithoutMarker ==
  ~Contains(target_url, RecencyMarker) =>
    \A k \in 1..Len(fetches) : fetches[k].attempt = "primary"

\* ----------------------------------------------------------------------- C10
\* C10: a renderer failure on page k does not abort the run: the call returns
\* no record, all_data is left as it is, and after a failed primary fetch the
\* alternate URL of page k is fetched next (or, the two URLs being equal, the
\* run stops); an error on one candidate leaves the records of the page as
\* they are and the loop goes on to the next candidate.
C10_FailureRecovery ==
  [][/\ RenderFails =>
          /\ outcome' \in {"running", "stopped"}
          /\ all_data' = all_data
          /\ yielded' = yielded
          /\ seen_urls' = seen_urls
          /\ page' = page
          /\ IF attempt = "primary" /\ AltUrl(target_url, page) # PrimaryUrl(target_url, page)
             THEN pc' = "fetch" /\ attempt' = "alternate" /\ outcome' = "running"
             ELSE pc' = "done" /\ outcome' = "stopped"
     /\ (\E c \in 1..Len(Containers) : CandidateFails(c)) =>
          /\ pc' = "loop"
          /\ outcome' = "running"
          /\ i' = i + 1
          /\ ncontainers' = ncontainers
          /\ page_data' = page_data
          /\ all_data' = all_data
          /\ seen_urls' = seen_urls]_vars

\* page 1 has yielded, the primary fetch of page 2 failed, its alternate URL
\* was rendered, and there the first candidate was accepted and the second failed
C10_Witness ==
  /\ pc = "loop"
  /\ container # 0
  /\ rfq_data = NoRecord
  /\ page = 2
  /\ attempt = "alternate"
  /\ all_data # <<>>
  /\ Len(fetches) >= 3
  /\ ~fetches[Len(fetches) - 1].ok
  /\ fetches[Len(fetches) - 1].page = 2
  /\ i = 3
  /\ Len(page_data) = 1

\* ----------------------------------------------------------------------- C11
\* scrape_multiple_pages has returned its list (normal completion, stop after
\* a page without records, interrupt, or setup failure)
Returned == pc = "done"

\* C11: whenever scrape_multiple_pages has returned, self.seen_urls holds
\* exactly the 'Inquiry URL's of the records of the returned list; at no point
\* of a run is a URL in self.seen_urls without its record being among the
\* accumulated records; and self.seen_urls only grows during a run.
C11_SeenSetConsistent ==
  /\ [](Returned => seen_urls = UrlsOf(all_data))
  /\ [](seen_urls \subseteq UrlsOf(Accepted))
  /\ [][seen_urls \subseteq seen_urls']_vars
====
